---- MODULE Spec2Model ----
(***************************************************************************)
(* A model of the nauman execution core:                                   *)
(*   - Executor::execute / Executor::execute_step  (src/src/execution.rs)  *)
(*   - capture_command / capture_stream / read_buffer                      *)
(*   - MultiplexedOutput and its sinks             (src/src/output.rs)     *)
(***************************************************************************)
EXTENDS Integers, Sequences, FiniteSets, TLC

(***************************************************************************)
(* Bounds of the model.                                                    *)
(***************************************************************************)
\* longest flow (number of steps) explored by Spec
MaxSteps == 3
\* longest flow explored by SpecRun
MaxRunSteps == 2
\* longest flow explored by SpecEnv
MaxEnvSteps == 2
\* most bytes a child writes to one of its streams in SpecCapture
MaxStream == 3
\* most bytes a child writes to its standard error in SpecCaptureFair
MaxFairStream == 2
\* most sinks registered with a MultiplexedOutput in SpecMux
MaxSinks == 2
\* most write and flush calls on a MultiplexedOutput in SpecMux
MaxCalls == 2

(***************************************************************************)
(* Values.                                                                 *)
(***************************************************************************)
None == "None"

\* Option<T>: the empty sequence, or the one-element sequence of the value
NoneOpt == <<>>
Some(x) == <<x>>
IsSome(o) == o # <<>>
Unwrap(o) == o[1]

\* ExecutionState
Running == "Running"
Failed == "Failed"

\* config::ExecutionPolicy
NoPriorFailed == "NoPriorFailed"
PriorSuccess == "PriorSuccess"
Always == "Always"
Policies == {NoPriorFailed, PriorSuccess, Always}

\* exit codes a child can end with (-1: no normal exit code), as i32
ExitCodes == {-1, 0, 1}

ENV_PREV_NAME == "NAUMAN_PREV_NAME"
ENV_PREV_ID == "NAUMAN_PREV_ID"
ENV_PREV_CODE == "NAUMAN_PREV_CODE"
ENV_JOB_NAME == "NAUMAN_JOB_NAME"
ENV_JOB_ID == "NAUMAN_JOB_ID"
ENV_TASK_NAME == "NAUMAN_TASK_NAME"
ENV_TASK_ID == "NAUMAN_TASK_ID"
ENV_OUTPUT_FILE == "NAUMAN_OUTPUT_FILE"

\* the flow identifier (flow.id)
FlowId == "job"

\* CommandId of the step at position i of the flow (unique within the flow)
CommandIdOf(i) == "t" \o ToString(i)
\* Command::name of the step at position i
NameOf(i) == "n" \o ToString(i)
\* path of the temporary output file handed to the step at position i
OutputFileOf(i) == "/tmp/out" \o ToString(i)

\* i32::to_string of an exit code: its decimal text
ExitCodeString(code) == ToString(code)

(***************************************************************************)
(* Env: a map from keys to values (common::Env), last write wins.          *)
(***************************************************************************)
EmptyEnv == [k \in {} |-> ""]

\* Env::insert
EnvInsert(env, k, v) == [x \in DOMAIN env \cup {k} |-> IF x = k THEN v ELSE env[x]]

\* Env::extend: every pair of other is inserted into env
EnvExtend(env, other) ==
    [x \in DOMAIN env \cup DOMAIN other |-> IF x \in DOMAIN other THEN other[x] ELSE env[x]]

\* keys a user-controlled source (process env, dotenv, flow env, step env,
\* output file) defines in the model when it defines anything
SrcKeys == {"X", ENV_TASK_ID, ENV_PREV_CODE, ENV_JOB_ID}

\* a source that sets every key of SrcKeys to v
SrcEnv(v) == [k \in SrcKeys |-> v]

VARIABLES
    dry_run,        \* options.dry_run
    system_env,     \* options.system_env
    sysenv,         \* the process environment (Env::from_system)
    dotenv,         \* options.dotenv: NoneOpt, or Some(the pairs of the file)
    flow_env,       \* flow.env
    flow,           \* the steps of the flow: [policy, is_hook, env]
    pc,             \* position of Executor::execute: new, loop, done, error
    env,            \* context.env
    state,          \* context.state
    will_execute,   \* context.will_execute
    current,        \* context.current (the command id, or None)
    previous,       \* context.previous: NoneOpt or Some(result)
    results,        \* the results vector of Executor::execute
    registry,       \* results fed back to the flow iterator (push_result)
    events,         \* what the logger received, in order
    launches,       \* handler invocations that announced their execution:
                    \* [id, ctx (context.env), env (of the child), spawned,
                    \*  merged (the pairs merged from the output file)]
    error           \* the error Executor::execute returned, or None

exec_vars == <<dry_run, system_env, sysenv, dotenv, flow_env, flow, pc, env, state,
               will_execute, current, previous, results, registry, events,
               launches, error>>

VARIABLES
    child,          \* the bytes the child writes to each stream, in order
    unread,         \* the bytes of each stream its worker has not read yet
    wpc,            \* position of each worker: read, send, done, failed, panicked
    wbuf,           \* buffer of each worker (the part of it written so far)
    wsize,          \* size of the last read of each worker
    chan,           \* the messages in the bounded channel, oldest first
    receiver,       \* the receiving side of the channel exists
    cpc,            \* position of capture_command: idle, recv, write,
                    \* join_stdout, join_stderr, returned
    joined,         \* the workers capture_command has joined
    cmsg,           \* the message the consumer received and is writing, as
                    \* an Option
    written,        \* the write_stream calls that returned Ok: [stream, bytes]
    cap_result,     \* what capture_command returned: None, "Ok" or the error
    fds,            \* the descriptor of each pipe of the child: open, closed
    dropped,        \* the Child has been dropped
    ub              \* what the double close of a descriptor did: None,
                    \* "abort" (the process was aborted) or "stray"

capture_vars == <<child, unread, wpc, wbuf, wsize, chan, receiver, cpc, cmsg, joined,
                  written, cap_result, fds, dropped, ub>>

VARIABLES
    outputs,        \* MultiplexedOutput::outputs: the kind of each sink
    sinklog,        \* the calls the sinks received during the last call on the
                    \* MultiplexedOutput, in order: [sink, op, buf, ret]
    mux_call,       \* the last call on the MultiplexedOutput:
                    \* [op, buf, fails, sinks (number of sinks registered)]
    mux_ret,        \* what that call returned: [ok, n, err]
    mux_calls       \* number of write and flush calls so far

mux_vars == <<outputs, sinklog, mux_call, mux_ret, mux_calls>>

vars == <<exec_vars, capture_vars, mux_vars>>

(***************************************************************************)
(* ExecutionResult and the pure parts of Executor::execute_step.           *)
(***************************************************************************)
\* ExecutionResult::is_success
IsSuccess(r) == r.exit_code = 0

\* ExecutionResult::is_aborted
IsAborted(r) == r.aborted

\* the result synthesized for a step the policy does not run
AbortedResult(id) ==
    [command_id |-> id, exit_code |-> 0, aborted |-> TRUE, duration |-> None]

\* the result Shell::execute returns
ShellResult(id, code) ==
    [command_id |-> id, exit_code |-> code, aborted |-> FALSE, duration |-> "Some"]

\* a variant of WillExecute: PriorSuccess reads the overall state instead of
\* the previous result
WillExecute_PriorReadsState(policy, st, prev) ==
    CASE policy = NoPriorFailed -> st # Failed
      [] policy = PriorSuccess -> st # Failed
      [] policy = Always -> TRUE

\* a variant of WillExecute: PriorSuccess never skips
WillExecute_PriorNeverSkips(policy, st, prev) ==
    CASE policy = NoPriorFailed -> st # Failed
      [] policy = PriorSuccess -> TRUE
      [] policy = Always -> TRUE

\* context.will_execute, from the policy and the context before the step
WillExecute(policy, st, prev) ==
    CASE policy = NoPriorFailed -> st # Failed
      [] policy = PriorSuccess -> IF IsSome(prev) THEN IsSuccess(Unwrap(prev)) ELSE TRUE
      [] policy = Always -> TRUE

\* position in the flow of the command with this id (flow.command(id))
FlowIndex(id) == CHOOSE i \in 1..Len(flow) : CommandIdOf(i) = id

\* the synthesized variables of an executed step: NAUMAN_PREV_* when a previous
\* result exists, then NAUMAN_TASK_*
InjectEnv(e, prev, i) ==
    LET e1 == IF IsSome(prev)
              THEN EnvInsert(EnvInsert(EnvInsert(e,
                       ENV_PREV_CODE, ExitCodeString(Unwrap(prev).exit_code)),
                       ENV_PREV_ID, Unwrap(prev).command_id),
                       ENV_PREV_NAME, NameOf(FlowIndex(Unwrap(prev).command_id)))
              ELSE e
    IN  EnvInsert(EnvInsert(e1, ENV_TASK_NAME, NameOf(i)), ENV_TASK_ID, CommandIdOf(i))

\* the temporary output file's path is exposed to the step
InjectOutputFile(e, i) == EnvInsert(e, ENV_OUTPUT_FILE, OutputFileOf(i))

\* a variant of BuildEnv: the context wins over the overrides of the step
BuildEnv_ContextWins(ctxenv, cmdenv) == EnvExtend(cmdenv, ctxenv)

\* Shell::execute: the environment of the child process
BuildEnv(ctxenv, cmdenv) == EnvExtend(ctxenv, cmdenv)

\* Command::envs(env) without env_clear(): the child inherits the environment
\* of the process, and the pairs of env are set on top of it
ChildEnv(procenv, e) == EnvExtend(procenv, e)

\* a variant of MergeOutput: the keys the context has already are kept
MergeOutput_KeepsOld(e, out) == IF IsSome(out) THEN EnvExtend(Unwrap(out), e) ELSE e

\* the pairs of the output file (NoneOpt: the file does not exist) are merged
MergeOutput(e, out) == IF IsSome(out) THEN EnvExtend(e, Unwrap(out)) ELSE e

\* a variant of NextState: the failure of a hook counts too
NextState_HookCounts(st, is_hook, r) ==
    IF ~IsSuccess(r) /\ ~IsAborted(r) THEN Failed ELSE st

\* a variant of NextState: a successful main step clears the failure
NextState_SuccessClears(st, is_hook, r) ==
    IF is_hook \/ IsAborted(r) THEN st ELSE IF IsSuccess(r) THEN Running ELSE Failed

\* context.state after a step
NextState(st, is_hook, r) ==
    IF ~is_hook /\ ~IsSuccess(r) /\ ~IsAborted(r) THEN Failed ELSE st

\* a variant of NextPrevious: the result of a hook is recorded too
NextPrevious_HookRecorded(prev, is_hook, r) == Some(r)

\* a variant of NextPrevious: the result of a skipped step is not recorded
NextPrevious_SkipNotRecorded(prev, is_hook, r) ==
    IF ~is_hook /\ ~IsAborted(r) THEN Some(r) ELSE prev

\* context.previous after a step
NextPrevious(prev, is_hook, r) == IF ~is_hook THEN Some(r) ELSE prev

\* a variant of PushResult: the result is not fed back to the flow
PushResult_Forgets(reg, id, r) == reg

\* flow_iter.push_result
PushResult(reg, id, r) == [x \in DOMAIN reg \cup {id} |-> IF x = id THEN r ELSE reg[x]]

\* an event handed to the logger
Event(type, id, data) == [type |-> type, id |-> id, data |-> data]

(***************************************************************************)
(* Fallible operations of one step, in the order the code reaches them.    *)
(***************************************************************************)
StepStages == <<"switch", "start", "shell", "announce", "spawn", "capture", "wait",
                "outfile", "end">>
StepFaults == {StepStages[n] : n \in DOMAIN StepStages}

StageNo(s) == CHOOSE n \in DOMAIN StepStages : StepStages[n] = s

\* the operation `s` was reached and returned Ok when the step fails at `fault`
Passed(s, fault) == fault = None \/ StageNo(fault) > StageNo(s)

\* a variant of PcAfterStep: the error of a step is dropped and the loop goes on
PcAfterStep_Continues(fault) == "loop"

\* where Executor::execute is after execute_step returned: `?` leaves the loop
\* (and the function) with the error
PcAfterStep(fault) == IF fault = None THEN "loop" ELSE "error"

\* a variant of Spawns: a dry run launches the child too
Spawns_InDryRun(will, dry) == will

\* Shell::execute launches a child process (and captures its output)
Spawns(will, dry) == will /\ ~dry

\* a variant of StepEvents: the start of a step is announced before the policy
\* is looked at
StepEvents_StartAlways(id, will, result, fault) ==
    (IF Passed("switch", fault) THEN <<Event("switch", id, will)>> ELSE <<>>)
    \o (IF Passed("start", fault) THEN <<Event("start", id, will)>> ELSE <<>>)
    \o (IF will /\ Passed("announce", fault) THEN <<Event("shell", id, will)>> ELSE <<>>)
    \o (IF Passed("end", fault) THEN <<Event("end", id, result)>> ELSE <<>>)

\* the events one step hands to the logger, in order: the context switch, the
\* start of the command and the announcement of the handler when the step is
\* executed, the end of the command with its result
StepEvents(id, will, result, fault) ==
    (IF Passed("switch", fault) THEN <<Event("switch", id, will)>> ELSE <<>>)
    \o (IF will /\ Passed("start", fault) THEN <<Event("start", id, will)>> ELSE <<>>)
    \o (IF will /\ Passed("announce", fault) THEN <<Event("shell", id, will)>> ELSE <<>>)
    \o (IF Passed("end", fault) THEN <<Event("end", id, result)>> ELSE <<>>)

(***************************************************************************)
(* The states after construction.                                           *)
(***************************************************************************)
\* the state Executor::new leaves
ExecutorNew ==
    /\ pc = "new"
    /\ env = EmptyEnv
    /\ state = Running
    /\ will_execute = TRUE
    /\ current = None
    /\ previous = NoneOpt
    /\ results = <<>>
    /\ registry = EmptyEnv
    /\ events = <<>>
    /\ launches = <<>>
    /\ error = None

\* the capture variables hold the fields of c
CaptureIs(c) ==
    /\ child = c.child
    /\ unread = c.unread
    /\ wpc = c.wpc
    /\ wbuf = c.wbuf
    /\ wsize = c.wsize
    /\ chan = c.chan
    /\ receiver = c.receiver
    /\ cpc = c.cpc
    /\ cmsg = c.cmsg
    /\ joined = c.joined
    /\ written = c.written
    /\ cap_result = c.cap_result
    /\ fds = c.fds
    /\ dropped = c.dropped

\* the capture variables take the fields of c
CaptureBecomes(c) ==
    /\ child' = c.child
    /\ unread' = c.unread
    /\ wpc' = c.wpc
    /\ wbuf' = c.wbuf
    /\ wsize' = c.wsize
    /\ chan' = c.chan
    /\ receiver' = c.receiver
    /\ cpc' = c.cpc
    /\ cmsg' = c.cmsg
    /\ joined' = c.joined
    /\ written' = c.written
    /\ cap_result' = c.cap_result
    /\ fds' = c.fds
    /\ dropped' = c.dropped

\* no child: no pipes, no workers, no channel
NoCapture ==
    [child |-> <<>>, unread |-> <<>>, wpc |-> <<>>, wbuf |-> <<>>, wsize |-> <<>>,
     chan |-> <<>>, receiver |-> FALSE, cpc |-> "idle", cmsg |-> NoneOpt,
     joined |-> {}, written |-> <<>>, cap_result |-> None, fds |-> <<>>,
     dropped |-> FALSE]

\* no capture is in progress
CaptureIdle == CaptureIs(NoCapture)

\* MultiplexedOutput::new, before any call
MuxNew ==
    /\ outputs = <<>>
    /\ sinklog = <<>>
    /\ mux_call = [op |-> None, buf |-> <<>>, fails |-> {}, sinks |-> 0]
    /\ mux_ret = [ok |-> TRUE, n |-> 0, err |-> 0]
    /\ mux_calls = 0

\* no flow is being executed
ExecutorIdle ==
    /\ dry_run = FALSE
    /\ system_env = FALSE
    /\ sysenv = EmptyEnv
    /\ dotenv = NoneOpt
    /\ flow_env = EmptyEnv
    /\ flow = <<>>
    /\ ExecutorNew

(***************************************************************************)
(* Stream capture: capture_command, capture_stream, read_buffer.           *)
(***************************************************************************)
\* const BUFFER_SIZE
BUFFER_SIZE == 1024
\* bounded(4)
ChannelCapacity == 4

\* logging::InputStream
Stdout == "Stdout"
Stderr == "Stderr"
Streams == {Stdout, Stderr}

Min(a, b) == IF a <= b THEN a ELSE b

\* the p-th byte the child writes to stream s
ByteOf(s, p) == IF s = Stdout THEN p ELSE 100 + p

\* the first n bytes the child writes to stream s
OutputOf(s, n) == [p \in 1..n |-> ByteOf(s, p)]

\* what source.read(buffer) can return for the worker of stream s: a count of at
\* least 1 and at most the buffer's size while bytes are left, 0 at the end of
\* the stream, or an error.  The pipes of the child are blocking, so WouldBlock
\* is not among the errors.  Once the Child has closed the descriptor under the
\* reader, a read fails or reads the file that has reused the number, which
\* may be at its end.
RawReads(s) ==
    IF s \notin DOMAIN unread THEN {}   \* no child, no pipe, no reader
    ELSE
    {[ok |-> TRUE, count |-> n, kind |-> None] :
        n \in IF unread[s] = <<>> THEN {0} ELSE 1..Min(BUFFER_SIZE, Len(unread[s]))}
    \cup {[ok |-> TRUE, count |-> 0, kind |-> None] : x \in {fds[s]} \ {"open"}}
    \cup {[ok |-> FALSE, count |-> 0, kind |-> "Other"]}

\* read_buffer
ReadBuffer(raw) ==
    IF raw.ok THEN [tag |-> "Some", size |-> raw.count]
    ELSE IF raw.kind = "WouldBlock" THEN [tag |-> "None", size |-> 0]
    ELSE [tag |-> "Err", size |-> 0]

\* the buffer after a read has stored data at its start
Overwrite(buffer, data) == data \o SubSeq(buffer, Len(data) + 1, Len(buffer))

\* the message a worker sends: a copy of its buffer, the size read, the stream
Message(buffer, size, s) == [buffer |-> buffer, size |-> size, stream |-> s]

\* a variant of ChunkOf: the whole buffer is written
ChunkOf_WholeBuffer(msg) == msg.buffer

\* the bytes the consumer writes for a message: &buffer[..size]
ChunkOf(msg) == SubSeq(msg.buffer, 1, msg.size)

\* a variant of SenderOpen: capture_command keeps a clone of the sender
SenderOpen_NeverDropped(s) == TRUE

\* a worker still holds its sender
SenderOpen(s) == wpc[s] \in {"read", "send"}

\* the process has not been aborted
Alive == ub # "abort"

\* what closing a file descriptor in the state fd does.  capture_command gives
\* each pipe of the child a second owner (File::from_raw_fd on the raw fd of
\* child.stdout / child.stderr), and each owner closes the descriptor when it
\* is dropped: the second close is an IO-safety violation, which aborts the
\* process (builds with debug assertions) or goes unnoticed, failing or
\* closing whatever descriptor has reused the number ("stray")
CloseOutcomes(fd) == IF fd = "closed" THEN {"abort", "stray"} ELSE {"closed"}

\* the undefined-behaviour record after a close with this outcome
AfterClose(outcome) == IF outcome = "closed" THEN ub ELSE outcome

\* what dropping the Child does: it closes both pipes, a second time when the
\* reader of a terminated worker has closed one already
DropOutcomes ==
    IF \E s \in DOMAIN fds : fds[s] = "closed" THEN {"abort", "stray"} ELSE {"closed"}

\* capture_command up to the spawn of the two workers
StartCapture ==
    /\ Alive
    /\ cpc = "idle"
    /\ DOMAIN child = Streams
    /\ cpc' = "recv"
    /\ receiver' = TRUE
    /\ chan' = <<>>
    /\ wpc' = [s \in Streams |-> "read"]
    /\ UNCHANGED <<child, unread, wbuf, wsize, cmsg, joined, written, cap_result,
                   fds, dropped, ub>>
    /\ UNCHANGED <<exec_vars, mux_vars>>

\* capture_stream: one read_buffer call of the worker of stream s and the match
\* on its result; a worker that leaves its loop drops its sender and its
\* reader, which closes the descriptor with the outcome `close`
WorkerRead(s, raw, close) ==
    /\ Alive
    /\ cpc # "idle"
    /\ wpc[s] = "read"
    /\ LET r == ReadBuffer(raw)
       IN  IF r.tag = "Some" /\ r.size > 0
           THEN /\ close = None
                /\ wbuf' = [wbuf EXCEPT ![s] = Overwrite(@, SubSeq(unread[s], 1, r.size))]
                /\ unread' = [unread EXCEPT ![s] = SubSeq(@, r.size + 1, Len(@))]
                /\ wsize' = [wsize EXCEPT ![s] = r.size]
                /\ wpc' = [wpc EXCEPT ![s] = "send"]
                /\ UNCHANGED <<fds, ub>>
           ELSE /\ close \in CloseOutcomes(fds[s])
                /\ wpc' = [wpc EXCEPT ![s] = IF r.tag = "Err" THEN "failed" ELSE "done"]
                /\ fds' = [fds EXCEPT ![s] = "closed"]
                /\ ub' = AfterClose(close)
                /\ UNCHANGED <<wbuf, unread, wsize>>
    /\ UNCHANGED <<child, chan, receiver, cpc, cmsg, joined, written, cap_result,
                   dropped>>
    /\ UNCHANGED <<exec_vars, mux_vars>>

\* a variant of CanSend: the channel is unbounded
CanSend_Unbounded(ch) == TRUE

\* bounded(4): a send completes only while fewer than 4 messages wait
CanSend(ch) == Len(ch) < ChannelCapacity

\* capture_stream: sender.send(..).unwrap(); the send blocks while the channel
\* is full and fails once the receiver is gone: the worker panics and the
\* unwinding drops its sender and its reader
WorkerSend(s, close) ==
    /\ Alive
    /\ cpc # "idle"
    /\ wpc[s] = "send"
    /\ IF receiver
       THEN /\ close = None
            /\ CanSend(chan)
            /\ chan' = Append(chan, Message(wbuf[s], wsize[s], s))
            /\ wpc' = [wpc EXCEPT ![s] = "read"]
            /\ UNCHANGED <<fds, ub>>
       ELSE /\ close \in CloseOutcomes(fds[s])
            /\ wpc' = [wpc EXCEPT ![s] = "panicked"]
            /\ fds' = [fds EXCEPT ![s] = "closed"]
            /\ ub' = AfterClose(close)
            /\ chan' = chan
    /\ UNCHANGED <<child, unread, wbuf, wsize, receiver, cpc, cmsg, joined, written,
                   cap_result, dropped>>
    /\ UNCHANGED <<exec_vars, mux_vars>>

\* capture_command: `for (buffer, size, stream) in r` receives the oldest
\* message, which frees its place in the channel
ConsumerRecv ==
    /\ Alive
    /\ cpc = "recv"
    /\ chan # <<>>
    /\ chan' = Tail(chan)
    /\ cmsg' = Some(Head(chan))
    /\ cpc' = "write"
    /\ UNCHANGED <<child, unread, wpc, wbuf, wsize, receiver, joined, written,
                   cap_result, fds, dropped, ub>>
    /\ UNCHANGED <<exec_vars, mux_vars>>

\* capture_command: output.write_stream(stream, &buffer[..size])? returns;
\* ok: it returns Ok; otherwise `?` returns the error, which drops the receiver
\* and the two JoinHandles
ConsumerWrite(ok) ==
    /\ Alive
    /\ cpc = "write"
    /\ cmsg' = NoneOpt
    /\ IF ok
       THEN /\ written' = Append(written, [stream |-> Unwrap(cmsg).stream,
                                           bytes |-> ChunkOf(Unwrap(cmsg))])
            /\ cpc' = "recv"
            /\ UNCHANGED <<receiver, cap_result>>
       ELSE /\ receiver' = FALSE
            /\ cpc' = "returned"
            /\ cap_result' = "WriteError"
            /\ written' = written
    /\ UNCHANGED <<child, unread, wpc, wbuf, wsize, chan, joined, fds, dropped, ub>>
    /\ UNCHANGED <<exec_vars, mux_vars>>

\* capture_command: the loop ends when the channel is empty and every sender
\* has been dropped
ConsumerEnd ==
    /\ Alive
    /\ cpc = "recv"
    /\ chan = <<>>
    /\ \A s \in Streams : ~SenderOpen(s)
    /\ receiver' = FALSE
    /\ cpc' = "join_stdout"
    /\ UNCHANGED <<child, unread, wpc, wbuf, wsize, chan, cmsg, joined, written,
                   cap_result, fds, dropped, ub>>
    /\ UNCHANGED <<exec_vars, mux_vars>>

\* what thread.join().unwrap()? makes of the end of a worker: None to go on
JoinOutcome(s) ==
    CASE wpc[s] = "done" -> None
      [] wpc[s] = "failed" -> "ReadError" \o s
      [] wpc[s] = "panicked" -> "Panic"

\* capture_command: thread_stdout.join().unwrap()?
JoinStdout ==
    /\ Alive
    /\ cpc = "join_stdout"
    /\ ~SenderOpen(Stdout)
    /\ joined' = joined \cup {Stdout}
    /\ IF JoinOutcome(Stdout) = None
       THEN cpc' = "join_stderr" /\ cap_result' = cap_result
       ELSE cpc' = "returned" /\ cap_result' = JoinOutcome(Stdout)
    /\ UNCHANGED <<child, unread, wpc, wbuf, wsize, chan, receiver, cmsg, written,
                   fds, dropped, ub>>
    /\ UNCHANGED <<exec_vars, mux_vars>>

\* capture_command: thread_stderr.join().unwrap()? and Ok(())
JoinStderr ==
    /\ Alive
    /\ cpc = "join_stderr"
    /\ ~SenderOpen(Stderr)
    /\ joined' = joined \cup {Stderr}
    /\ cpc' = "returned"
    /\ cap_result' = IF JoinOutcome(Stderr) = None THEN "Ok" ELSE JoinOutcome(Stderr)
    /\ UNCHANGED <<child, unread, wpc, wbuf, wsize, chan, receiver, cmsg, written,
                   fds, dropped, ub>>
    /\ UNCHANGED <<exec_vars, mux_vars>>

\* the caller of capture_command (Shell::execute) leaves its scope, by `?` or
\* at its end: the Child is dropped, which closes its pipes
DropChild(close) ==
    /\ Alive
    /\ cpc = "returned"
    /\ ~dropped
    /\ close \in DropOutcomes
    /\ dropped' = TRUE
    /\ fds' = [s \in DOMAIN fds |-> "closed"]
    /\ ub' = AfterClose(close)
    /\ UNCHANGED <<child, unread, wpc, wbuf, wsize, chan, receiver, cpc, cmsg, joined,
                   written, cap_result>>
    /\ UNCHANGED <<exec_vars, mux_vars>>

\* a child has been spawned with piped standard output and standard error,
\* and capture_command has not been called yet
FreshCapture(kid) ==
    [child |-> kid, unread |-> kid,
     wpc |-> [s \in Streams |-> "unspawned"],
     wbuf |-> [s \in Streams |-> <<>>],
     wsize |-> [s \in Streams |-> 0],
     chan |-> <<>>, receiver |-> FALSE, cpc |-> "idle", cmsg |-> NoneOpt,
     joined |-> {}, written |-> <<>>, cap_result |-> None,
     fds |-> [s \in Streams |-> "open"], dropped |-> FALSE]

Spawned(kid) == CaptureIs(FreshCapture(kid))

\* the child that writes n bytes to its standard output and m to its
\* standard error
ChildOf(n, m) == [s \in Streams |-> IF s = Stdout THEN OutputOf(s, n) ELSE OutputOf(s, m)]

InitCapture ==
    /\ ExecutorIdle
    /\ MuxNew
    /\ \E n \in 0..MaxStream, m \in 0..MaxStream : Spawned(ChildOf(n, m))
    /\ ub = None

\* the outcomes of a close, None when the step closes nothing
Closes == {None, "closed", "abort", "stray"}

\* the steps of capture_command and of its workers
CaptureSteps ==
    \/ StartCapture
    \/ \E s \in Streams, close \in Closes : \E raw \in RawReads(s) : WorkerRead(s, raw, close)
    \/ \E s \in Streams, close \in Closes : WorkerSend(s, close)
    \/ ConsumerRecv
    \/ \E ok \in BOOLEAN : ConsumerWrite(ok)
    \/ ConsumerEnd
    \/ JoinStdout
    \/ JoinStderr

NextCapture ==
    \/ CaptureSteps
    \/ \E close \in Closes : DropChild(close)

SpecCapture == InitCapture /\ [][NextCapture]_vars

\* the steps of the worker thread of stream s
Worker(s) ==
    \E close \in Closes :
        (\E raw \in RawReads(s) : WorkerRead(s, raw, close)) \/ WorkerSend(s, close)

\* the steps of the thread that called capture_command
Consumer ==
    \/ StartCapture
    \/ ConsumerRecv
    \/ \E ok \in BOOLEAN : ConsumerWrite(ok)
    \/ ConsumerEnd
    \/ JoinStdout
    \/ JoinStderr
    \/ \E close \in Closes : DropChild(close)

\* the children of the fair capture
InitCaptureFair ==
    /\ ExecutorIdle
    /\ MuxNew
    /\ \E n \in 0..MaxStream, m \in 0..MaxFairStream : Spawned(ChildOf(n, m))
    /\ ub = None

\* the capture under a fair scheduler: a thread that can take a step is
\* eventually scheduled
SpecCaptureFair ==
    /\ InitCaptureFair
    /\ [][NextCapture]_vars
    /\ \A s \in Streams : WF_vars(Worker(s))
    /\ WF_vars(Consumer)

(***************************************************************************)
(* Executor::execute, first part: the base environment.                    *)
(***************************************************************************)
\* the process environment, when options.system_env is set
WithSystem(e, use_system, sys) == IF use_system THEN EnvExtend(e, sys) ELSE e

\* the pairs of the dotenv file, when options.dotenv is set
WithDotenv(e, dot) == IF IsSome(dot) THEN EnvExtend(e, Unwrap(dot)) ELSE e

\* the flow-level environment
WithFlowEnv(e, fenv) == EnvExtend(e, fenv)

\* the global context variables NAUMAN_JOB_NAME and NAUMAN_JOB_ID
WithJob(e) == EnvInsert(EnvInsert(e, ENV_JOB_NAME, FlowId), ENV_JOB_ID, FlowId)

\* fault: None, "dotenv" (the dotenv file cannot be loaded) or "logdir" (the log
\* directory cannot be created)
Setup(fault) ==
    /\ pc = "new"
    /\ fault = "dotenv" => IsSome(dotenv)
    /\ LET e1 == WithSystem(env, system_env, sysenv)
           e2 == WithDotenv(e1, dotenv)
           e3 == WithFlowEnv(e2, flow_env)
       IN  env' = CASE fault = "dotenv" -> e1
                    [] fault = "logdir" -> e3
                    [] OTHER -> WithJob(e3)
    /\ IF fault = None
       THEN pc' = "loop" /\ error' = error
       ELSE pc' = "error" /\ error' = fault
    /\ UNCHANGED <<dry_run, system_env, sysenv, dotenv, flow_env, flow, state,
                   will_execute, current, previous, results, registry, events,
                   launches>>
    /\ UNCHANGED <<capture_vars, mux_vars>>

(***************************************************************************)
(* Executor::execute, the loop body: execute_step, push_result and         *)
(* results.push for the next command of the flow.  A step that launches a  *)
(* child takes two actions of the executor, with the capture of the        *)
(* child's output between them; a step that launches none (skipped by      *)
(* policy, or a dry run) takes one.                                        *)
(*   kid:   what the child writes to its pipes, when it is launched        *)
(*   code:  the exit code of the child                                     *)
(*   out:   the output file after the child ran: NoneOpt or Some(pairs)    *)
(*   fault: None, or the fallible operation that returns an error          *)
(*   close: what dropping the Child does (CloseOutcomes)                   *)
(***************************************************************************)
\* the fallible operations of a step before capture_command is called
FaultsBefore(will, launched) ==
    IF launched THEN {"switch", "start", "shell", "announce", "spawn"}
    ELSE IF will THEN {"switch", "start", "shell", "announce", "end"}
    ELSE {"switch", "end"}

\* the sequence without its first n elements
Drop(seq, n) == SubSeq(seq, n + 1, Len(seq))

\* execute_step from its start: to its end for a step that launches no child,
\* to the call of capture_command (the child has been spawned) for a step
\* that launches one
BeginStep(kid, fault) ==
    /\ Alive
    /\ pc = "loop"
    /\ Len(results) < Len(flow)
    /\ LET i == Len(results) + 1
           command == flow[i]
           id == CommandIdOf(i)
           will == WillExecute(command.policy, state, previous)
           launched == Spawns(will, dry_run)
           \* context.env when the handler is invoked
           ctx == InjectOutputFile(InjectEnv(env, previous, i), i)
           \* the result of a step that launches no child
           result == IF will THEN ShellResult(id, 0) ELSE AbortedResult(id)
           spawned == launched /\ fault = None
       IN
       /\ fault \in FaultsBefore(will, launched) \cup {None}
       /\ current' = id
       /\ will_execute' = will
       /\ events' = events \o StepEvents(id, will, result,
                                         IF spawned THEN "capture" ELSE fault)
       /\ env' = IF will /\ Passed("start", fault) THEN ctx ELSE env
       /\ launches' = IF will /\ Passed("announce", fault)
                      THEN Append(launches,
                                  [id |-> id, ctx |-> ctx,
                                   env |-> ChildEnv(sysenv, BuildEnv(ctx, command.env)),
                                   spawned |-> spawned,
                                   merged |-> NoneOpt])
                      ELSE launches
       /\ IF spawned
          THEN /\ pc' = "capture"
               /\ CaptureBecomes(FreshCapture(kid))
               /\ ub' = ub
               /\ UNCHANGED <<state, previous, registry, results, error>>
          ELSE /\ IF fault = None
                  THEN /\ state' = NextState(state, command.is_hook, result)
                       /\ previous' = NextPrevious(previous, command.is_hook, result)
                       /\ registry' = PushResult(registry, id, result)
                       /\ results' = Append(results, result)
                       /\ error' = error
                  ELSE /\ error' = fault
                       /\ UNCHANGED <<state, previous, registry, results>>
               /\ pc' = PcAfterStep(fault)
               /\ UNCHANGED capture_vars
    /\ UNCHANGED <<dry_run, system_env, sysenv, dotenv, flow_env, flow>>
    /\ UNCHANGED mux_vars

\* Shell::execute and execute_step after capture_command returned: the `?` on
\* its result, child.wait(), the end of Shell::execute, where the Child is
\* dropped, the merge of the output file, the end event and the update of the
\* context; then push_result and results.push
FinishStep(code, out, fault, close) ==
    /\ Alive
    /\ pc = "capture"
    /\ cpc = "returned"
    /\ ~dropped
    /\ close \in DropOutcomes
    /\ (fault = "capture") <=> (cap_result # "Ok")
    /\ fault \in {None, "capture", "wait", "outfile", "end"}
    /\ ~Passed("wait", fault) => code = 0 /\ out = NoneOpt
    /\ fault = "outfile" => IsSome(out)
    /\ LET i == Len(results) + 1
           command == flow[i]
           id == CommandIdOf(i)
           result == ShellResult(id, code)
           before == Len(StepEvents(id, TRUE, result, "capture"))
       IN  IF close = "abort"
           THEN /\ ub' = "abort"
                /\ UNCHANGED <<child, unread, wpc, wbuf, wsize, chan, receiver, cpc,
                               cmsg, joined, written, cap_result, fds, dropped>>
                /\ UNCHANGED <<pc, env, state, will_execute, current, previous,
                               results, registry, events, launches, error>>
           ELSE /\ events' = events \o Drop(StepEvents(id, TRUE, result, fault), before)
                /\ env' = IF Passed("outfile", fault) THEN MergeOutput(env, out) ELSE env
                /\ launches' = [launches EXCEPT ![Len(launches)].merged =
                                   IF Passed("outfile", fault) THEN out ELSE NoneOpt]
                /\ IF fault = None
                   THEN /\ state' = NextState(state, command.is_hook, result)
                        /\ previous' = NextPrevious(previous, command.is_hook, result)
                        /\ registry' = PushResult(registry, id, result)
                        /\ results' = Append(results, result)
                        /\ error' = error
                   ELSE /\ error' = fault
                        /\ UNCHANGED <<state, previous, registry, results>>
                /\ pc' = PcAfterStep(fault)
                /\ ub' = AfterClose(close)
                /\ IF \A s \in Streams : ~SenderOpen(s)
                   THEN \* the workers are gone: nothing is left of the capture
                        CaptureBecomes(NoCapture)
                   ELSE \* the workers run on, detached, on closed descriptors
                        /\ dropped' = TRUE
                        /\ fds' = [s \in Streams |-> "closed"]
                        /\ UNCHANGED <<child, unread, wpc, wbuf, wsize, chan,
                                       receiver, cpc, cmsg, joined, written,
                                       cap_result>>
                /\ UNCHANGED <<will_execute, current>>
    /\ UNCHANGED <<dry_run, system_env, sysenv, dotenv, flow_env, flow>>
    /\ UNCHANGED mux_vars

(***************************************************************************)
(* Executor::execute, after the loop: flush and the run summary.           *)
(***************************************************************************)
\* fault: None, "flush" or "summary"
Summary(fault) ==
    /\ pc = "loop"
    /\ Len(results) = Len(flow)
    /\ events' = events
             \o (IF fault # "flush" THEN <<Event("flush", None, FALSE)>> ELSE <<>>)
             \o (IF fault = None THEN <<Event("summary", None, results)>> ELSE <<>>)
    /\ IF fault = None
       THEN pc' = "done" /\ error' = error
       ELSE pc' = "error" /\ error' = fault
    /\ UNCHANGED <<dry_run, system_env, sysenv, dotenv, flow_env, flow, env, state,
                   will_execute, current, previous, results, registry, launches>>
    /\ UNCHANGED <<capture_vars, mux_vars>>

(***************************************************************************)
(* The flows and the specification of a run of the executor.               *)
(***************************************************************************)
\* the step definitions of a flow of at most n steps; the step at position i
\* that has environment overrides sets the keys of SrcKeys to "s<i>"
FlowsOf(n, pols, hooks, envs) ==
    UNION {{[i \in 1..k |->
                [policy |-> f[i].policy, is_hook |-> f[i].is_hook,
                 env |-> IF f[i].has_env THEN SrcEnv("s" \o ToString(i)) ELSE EmptyEnv]] :
            f \in [1..k -> [policy : pols, is_hook : hooks, has_env : envs]]} :
           k \in 0..n}

Init ==
    /\ CaptureIdle
    /\ ub = None
    /\ MuxNew
    /\ dry_run \in BOOLEAN
    /\ system_env = FALSE
    /\ sysenv = SrcEnv("p")
    /\ dotenv = NoneOpt
    /\ flow_env = EmptyEnv
    /\ flow \in FlowsOf(MaxSteps, Policies, BOOLEAN, {FALSE})
    /\ ExecutorNew

\* the steps of Executor::execute when the children of its steps write what
\* the members of kids write
ExecutorSteps(kids) ==
    \/ \E fault \in {None, "dotenv", "logdir"} : Setup(fault)
    \/ \E kid \in kids, fault \in StepFaults \cup {None} : BeginStep(kid, fault)
    \/ \E code \in ExitCodes, fault \in StepFaults \cup {None}, close \in Closes :
          FinishStep(code, IF fault = "outfile" THEN Some(EmptyEnv) ELSE NoneOpt,
                     fault, close)
    \/ \E fault \in {None, "flush", "summary"} : Summary(fault)

\* a child that writes nothing
SilentChild == ChildOf(0, 0)

\* the steps of capture_command and of its workers when the child is silent:
\* no worker has anything to send and the consumer receives nothing
SilentCaptureSteps ==
    \/ StartCapture
    \/ \E s \in Streams, close \in Closes : \E raw \in RawReads(s) : WorkerRead(s, raw, close)
    \/ ConsumerEnd
    \/ JoinStdout
    \/ JoinStderr

\* runs of flows of up to MaxSteps steps whose children are silent
Next ==
    \/ ExecutorSteps({SilentChild})
    \/ SilentCaptureSteps

Spec == Init /\ [][Next]_vars

\* the children of the runs of SpecRun: a silent one and one that writes two
\* bytes to its standard output
RunChildren == {SilentChild, ChildOf(2, 0)}

InitRun ==
    /\ CaptureIdle
    /\ ub = None
    /\ MuxNew
    /\ dry_run \in BOOLEAN
    /\ system_env = FALSE
    /\ sysenv = SrcEnv("p")
    /\ dotenv = NoneOpt
    /\ flow_env = EmptyEnv
    /\ flow \in FlowsOf(MaxRunSteps, Policies, BOOLEAN, {FALSE})
    /\ ExecutorNew

\* runs of flows of up to MaxRunSteps steps, with every step of the capture
\* of the output of their children
NextRun ==
    \/ ExecutorSteps(RunChildren)
    \/ CaptureSteps

SpecRun == InitRun /\ [][NextRun]_vars

(***************************************************************************)
(* Properties of the flow state machine.                                   *)
(***************************************************************************)
\* the step at position i was run and returned a non-zero exit code
RanAndFailed(i) == ~results[i].aborted /\ results[i].exit_code # 0

\* positions of the main (non-hook) steps that have a result among rs
MainSteps(rs) == {j \in 1..Len(rs) : ~flow[j].is_hook}

\* the result of the last main step among rs, as an Option
LastMain(rs) ==
    IF MainSteps(rs) = {} THEN NoneOpt
    ELSE Some(rs[CHOOSE j \in MainSteps(rs) : \A k \in MainSteps(rs) : k <= j])

\* the step at position Len(results)+1 has just produced its result
StepDone == Len(results') = Len(results) + 1

\* C1: at every point of a run the overall state is Failed if and only if some
\* earlier main (non-hook) step was run (not aborted) and returned a non-zero
\* exit code; otherwise it is Running.
C1_FailedIffMainStepFailed ==
    /\ state \in {Running, Failed}
    /\ state = Failed <=> \E i \in 1..Len(results) : ~flow[i].is_hook /\ RanAndFailed(i)

\* C1 witness: the state is Failed after a failed main step, and a hook failed too
C1_Witness ==
    /\ state = Failed
    /\ \E i \in 1..Len(results) : ~flow[i].is_hook /\ RanAndFailed(i)
    /\ \E i \in 1..Len(results) : flow[i].is_hook /\ RanAndFailed(i)
    /\ \E i \in 1..Len(results) : results[i].aborted

\* C2: the decision to run a step is taken from the context as it is before the
\* step: a PriorSuccess step is aborted iff a previous main result exists and its
\* exit code is not 0, a NoPriorFailed step iff the overall state is already
\* Failed, an Always step never.
C2_PolicyDecision ==
    [][StepDone =>
        LET i == Len(results')
            before == LastMain(results)
        IN  results'[i].aborted <=>
               CASE flow[i].policy = PriorSuccess ->
                        IsSome(before) /\ Unwrap(before).exit_code # 0
                 [] flow[i].policy = NoPriorFailed -> state = Failed
                 [] flow[i].policy = Always -> FALSE]_vars

\* C2 witness: a PriorSuccess step ran although the overall state was Failed (the
\* previous main result was a skipped step), and a NoPriorFailed step was aborted
C2_Witness ==
    /\ \E i \in 1..Len(results) :
          /\ flow[i].policy = PriorSuccess /\ ~results[i].aborted
          /\ \E j \in 1..(i - 1) : ~flow[j].is_hook /\ RanAndFailed(j)
    /\ \E i \in 1..Len(results) : flow[i].policy = NoPriorFailed /\ results[i].aborted

\* C3 (as claimed): a step the policy skips is not launched, gets a result with
\* aborted = true, exit code 0 and no duration, and leaves the overall state and
\* the recorded previous result unchanged.
C3_SkipLeavesContext ==
    [][StepDone /\ results'[Len(results')].aborted =>
        /\ results'[Len(results')].exit_code = 0
        /\ results'[Len(results')].duration = None
        /\ launches' = launches
        /\ state' = state
        /\ previous' = previous]_vars

\* C4: a hook step, whatever its exit code and whether it ran or was skipped,
\* leaves the overall state and the recorded previous result as they were; its
\* result is fed to the result registry of the flow and pushed on the result list.
C4_HookLeavesContext ==
    [][StepDone /\ flow[Len(results')].is_hook =>
        LET i == Len(results')
        IN  /\ state' = state
            /\ previous' = previous
            /\ results' = Append(results, results'[i])
            /\ results'[i].command_id = CommandIdOf(i)
            /\ CommandIdOf(i) \in DOMAIN registry'
            /\ registry'[CommandIdOf(i)] = results'[i]]_vars

\* C4 witness: a hook ran and failed after a successful main step; the state is
\* Running and previous is still the result of the main step
C4_Witness ==
    /\ Len(results) = 2
    /\ ~flow[1].is_hook /\ flow[2].is_hook
    /\ RanAndFailed(2)
    /\ registry[CommandIdOf(2)].exit_code # 0
    /\ state = Running
    /\ previous = Some(results[1])

\* C5: the overall state starts as Running, its only transition is Running to
\* Failed, and once Failed it is never set back to Running.
C5_StateMonotonic ==
    /\ state = Running
    /\ [][state' # state => state = Running /\ state' = Failed]_vars

\* C5 witness: a main step ran and succeeded after the state became Failed
C5_Witness ==
    /\ state = Failed
    /\ \E i \in 1..Len(results) :
          /\ ~flow[i].is_hook /\ ~results[i].aborted /\ results[i].exit_code = 0
          /\ \E j \in 1..(i - 1) : ~flow[j].is_hook /\ RanAndFailed(j)

\* the flow [A; B with policy PriorSuccess; C with policy Always] of main steps
\* has run, A exited 1 and B and C exit 0 when they are run
ScenarioABC ==
    /\ Len(flow) = 3 /\ Len(results) = 3
    /\ \A i \in 1..3 : ~flow[i].is_hook
    /\ flow[2].policy = PriorSuccess
    /\ flow[3].policy = Always
    /\ results[1].exit_code = 1
    /\ \A i \in 2..3 : ~results[i].aborted => results[i].exit_code = 0

\* C6: the flow [A exits 1; B PriorSuccess; C Always] yields, in this order,
\* A: exit code 1 not aborted, B: aborted with exit code 0, C: not aborted with
\* exit code 0, and the overall state at the end is Failed.
C6_ScenarioABC ==
    ScenarioABC =>
        /\ \A i \in 1..3 : results[i].command_id = CommandIdOf(i)
        /\ results[1].exit_code = 1 /\ ~results[1].aborted
        /\ results[2].exit_code = 0 /\ results[2].aborted
        /\ results[3].exit_code = 0 /\ ~results[3].aborted
        /\ state = Failed

\* C6 witness: the run of that flow has ended
C6_Witness == ScenarioABC /\ pc = "done"

(***************************************************************************)
(* Properties of the stream capture.                                       *)
(***************************************************************************)
RECURSIVE DeliveredOf(_, _)
\* the bytes of the chunks of ws written with the tag s, in delivery order
DeliveredOf(ws, s) ==
    IF ws = <<>> THEN <<>>
    ELSE (IF Head(ws).stream = s THEN Head(ws).bytes ELSE <<>>) \o DeliveredOf(Tail(ws), s)

IsPrefix(a, b) == Len(a) <= Len(b) /\ a = SubSeq(b, 1, Len(a))

\* C7: capture never drops bytes: for every interleaving of the workers and the
\* consumer and every split of the output into reads, the chunks written with
\* the tag of a stream are, concatenated in delivery order, a prefix of what the
\* child wrote to that stream, and all of it when capture_command returns Ok.
C7_NoBytesDropped ==
    \A s \in DOMAIN child :
        /\ IsPrefix(DeliveredOf(written, s), child[s])
        /\ cap_result = "Ok" => DeliveredOf(written, s) = child[s]

\* C7 witness: a capture returned Ok after both streams were read in several
\* reads of different sizes and their chunks were delivered interleaved
C7_Witness ==
    /\ cap_result = "Ok"
    /\ \A s \in Streams : Len(child[s]) >= 3
    /\ \E i, j, k \in 1..Len(written) :
          /\ i < j /\ j < k
          /\ written[i].stream = Stdout /\ Len(written[i].bytes) = 2
          /\ written[j].stream = Stderr
          /\ written[k].stream = Stdout /\ Len(written[k].bytes) = 1

(***************************************************************************)
(* MultiplexedOutput and its sinks.                                        *)
(***************************************************************************)
\* the variants of Output
SinkKinds == {"Stdout", "Stderr", "File", "Writer", "Null"}

\* the buffers written in the model
Buffers == {<<7>>, <<7, 8>>}

\* io::Result of a call: Ok(n), or the error of the sink at position err
Ok(n) == [ok |-> TRUE, n |-> n, err |-> 0]
Err(i) == [ok |-> FALSE, n |-> 0, err |-> i]

\* Output::write and Output::flush of the sink at position i: Null accepts and
\* drops everything, the other kinds return what their stream returns: an
\* error, or the number of bytes the stream took, which io::Write::write
\* allows to be less than the length of the buffer
SinkCall(kind, i, op, buf, fail, take) ==
    IF kind = "Null" THEN Ok(0)
    ELSE IF fail THEN Err(i)
    ELSE IF op = "write" THEN Ok(take) ELSE Ok(0)

RECURSIVE Forward_KeepsGoing(_, _, _, _, _, _, _)
\* a variant of Forward: the sinks after a failing one are still called, and
\* the first error is returned at the end
Forward_KeepsGoing(outs, i, op, buf, fails, takes, log) ==
    IF i > Len(outs)
    THEN [log |-> log,
          ret |-> IF \E j \in fails : j \in 1..Len(outs) /\ outs[j] # "Null"
                  THEN Err(CHOOSE j \in fails : /\ j \in 1..Len(outs) /\ outs[j] # "Null"
                                                /\ \A k \in fails :
                                                     (k \in 1..Len(outs) /\ outs[k] # "Null")
                                                     => j <= k)
                  ELSE IF op = "write" THEN Ok(Len(buf)) ELSE Ok(0)]
    ELSE Forward_KeepsGoing(outs, i + 1, op, buf, fails, takes,
                            Append(log, [sink |-> i, op |-> op, buf |-> buf,
                                         ret |-> SinkCall(outs[i], i, op, buf,
                                                          i \in fails, takes[i])]))

RECURSIVE Forward(_, _, _, _, _, _, _)
\* `for output in &mut self.outputs { output.write(buf)?; }` from the sink at
\* position i on, then Ok(buf.len()); for flush, output.flush()? and Ok(()).
\* The count a sink returns is dropped.
Forward(outs, i, op, buf, fails, takes, log) ==
    IF i > Len(outs)
    THEN [log |-> log, ret |-> IF op = "write" THEN Ok(Len(buf)) ELSE Ok(0)]
    ELSE LET r == SinkCall(outs[i], i, op, buf, i \in fails, takes[i])
             log1 == Append(log, [sink |-> i, op |-> op, buf |-> buf, ret |-> r])
         IN  IF r.ok THEN Forward(outs, i + 1, op, buf, fails, takes, log1)
             ELSE [log |-> log1, ret |-> r]

\* MultiplexedOutput::add
MuxAdd(kind) ==
    /\ Len(outputs) < MaxSinks
    /\ outputs' = Append(outputs, kind)
    /\ UNCHANGED <<sinklog, mux_call, mux_ret, mux_calls>>
    /\ UNCHANGED <<exec_vars, capture_vars>>

\* the sinks of `fails` are those whose stream returns an error when called
FailSets == {f \in SUBSET (1..Len(outputs)) : \A i \in f : outputs[i] # "Null"}

\* the number of bytes of buf the stream of each sink takes when it is called
\* and does not fail (the whole buffer where no stream is asked)
TakeSets(buf, fails) ==
    {t \in [1..Len(outputs) -> 0..Len(buf)] :
        \A i \in 1..Len(outputs) :
            (outputs[i] = "Null" \/ i \in fails) => t[i] = Len(buf)}

\* MultiplexedOutput::write
MuxWrite(buf, fails, takes) ==
    /\ mux_calls < MaxCalls
    /\ LET r == Forward(outputs, 1, "write", buf, fails, takes, <<>>)
       IN  /\ sinklog' = r.log
           /\ mux_ret' = r.ret
    /\ mux_call' = [op |-> "write", buf |-> buf, fails |-> fails,
                    sinks |-> Len(outputs)]
    /\ mux_calls' = mux_calls + 1
    /\ UNCHANGED outputs
    /\ UNCHANGED <<exec_vars, capture_vars>>

\* MultiplexedOutput::flush
MuxFlush(fails) ==
    /\ mux_calls < MaxCalls
    /\ LET r == Forward(outputs, 1, "flush", <<>>, fails,
                        [i \in 1..Len(outputs) |-> 0], <<>>)
       IN  /\ sinklog' = r.log
           /\ mux_ret' = r.ret
    /\ mux_call' = [op |-> "flush", buf |-> <<>>, fails |-> fails,
                    sinks |-> Len(outputs)]
    /\ mux_calls' = mux_calls + 1
    /\ UNCHANGED outputs
    /\ UNCHANGED <<exec_vars, capture_vars>>

InitMux ==
    /\ ExecutorIdle
    /\ CaptureIdle
    /\ ub = None
    /\ MuxNew

NextMux ==
    \/ \E kind \in SinkKinds : MuxAdd(kind)
    \/ \E buf \in Buffers, fails \in FailSets :
          \E takes \in TakeSets(buf, fails) : MuxWrite(buf, fails, takes)
    \/ \E fails \in FailSets : MuxFlush(fails)

SpecMux == InitMux /\ [][NextMux]_vars

(***************************************************************************)
(* Properties of the multiplexed output.                                   *)
(***************************************************************************)
\* the calls the sinks received during the last call on the MultiplexedOutput
LastCalls == sinklog

\* number of sinks the last call reached: up to and including the first failing
\* one, or all of them
Reached ==
    IF mux_call.fails = {} THEN mux_call.sinks
    ELSE CHOOSE i \in mux_call.fails : \A j \in mux_call.fails : i <= j

\* C8: a write of B hands B to every sink up to and including the first
\* failing one, in exactly one write call each, in registration order; the
\* sinks after it are not called and the call returns that error; without a
\* failing sink (and with zero sinks) the write succeeds.  flush behaves the
\* same way.  A sink receives B when its write is called with B: the count
\* its stream returns is not looked at.
C8_FanOut ==
    mux_call.op # None =>
        /\ [i \in 1..Len(LastCalls) |->
               [sink |-> LastCalls[i].sink, op |-> LastCalls[i].op,
                buf |-> LastCalls[i].buf]]
              = [i \in 1..Reached |->
                    [sink |-> i, op |-> mux_call.op, buf |-> mux_call.buf]]
        /\ \A i \in 1..Len(LastCalls) : LastCalls[i].ret.ok <=> i \notin mux_call.fails
        /\ mux_ret.ok <=> mux_call.fails = {}
        /\ ~mux_ret.ok => mux_ret.err = Reached
        /\ (mux_ret.ok /\ mux_call.op = "write") => mux_ret.n = Len(mux_call.buf)

\* C8 witness: a write of two bytes to two sinks: the first was handed both
\* bytes and its stream took one, the second was handed both and failed, and
\* the call returned the error of the second
C8_Witness ==
    /\ mux_call.op = "write"
    /\ mux_call.buf = <<7, 8>>
    /\ mux_call.sinks = 2
    /\ mux_call.fails = {2}
    /\ Len(sinklog) = 2
    /\ sinklog[1].buf = <<7, 8>> /\ sinklog[2].buf = <<7, 8>>
    /\ sinklog[1].ret = Ok(1)
    /\ mux_ret = Err(2)

(***************************************************************************)
(* The specification of the runs that exercise the environment.            *)
(***************************************************************************)
InitEnv ==
    /\ CaptureIdle
    /\ ub = None
    /\ MuxNew
    /\ dry_run = FALSE
    /\ system_env \in BOOLEAN
    /\ sysenv = SrcEnv("p")
    /\ dotenv \in {NoneOpt, Some(SrcEnv("d"))}
    /\ flow_env \in {EmptyEnv, SrcEnv("w")}
    /\ flow \in FlowsOf(MaxEnvSteps, {Always, PriorSuccess}, BOOLEAN, BOOLEAN)
    /\ ExecutorNew

\* the output file of the step at position i, when the step writes to it
OutputOfStep(i) == Some(SrcEnv("f" \o ToString(i)))

\* runs in which no fallible operation returns an error, the children silent;
\* the double close of the pipe descriptors has every outcome it can have
NextEnv ==
    \/ Setup(None)
    \/ BeginStep(SilentChild, None)
    \/ StartCapture
    \/ \E s \in Streams, close \in Closes :
          \E raw \in RawReads(s) : raw.ok /\ WorkerRead(s, raw, close)
    \/ ConsumerEnd
    \/ JoinStdout
    \/ JoinStderr
    \/ \E code \in {0, 1}, out \in {NoneOpt, OutputOfStep(Len(results) + 1)},
          close \in Closes :
          FinishStep(code, out, None, close)
    \/ Summary(None)

SpecEnv == InitEnv /\ [][NextEnv]_vars

(***************************************************************************)
(* Properties of the environment.                                          *)
(***************************************************************************)
\* the value the last source of the chain that defines k gives to k
RECURSIVE ChainValue(_, _)
ChainValue(chain, k) ==
    IF k \in DOMAIN chain[Len(chain)] THEN chain[Len(chain)][k]
    ELSE ChainValue(SubSeq(chain, 1, Len(chain) - 1), k)

\* the keys some source of the chain defines
ChainKeys(chain) == UNION {DOMAIN chain[n] : n \in DOMAIN chain}

\* env is what the chain of sources gives, later sources winning
AgreesWithChain(e, chain) ==
    /\ DOMAIN e = ChainKeys(chain)
    /\ \A k \in DOMAIN e : e[k] = ChainValue(chain, k)

\* the sources of the base environment, in order; the child inherits the
\* process environment whether or not options.system_env copies it into the
\* context
ProcessSource == sysenv
DotenvSource == IF IsSome(dotenv) THEN Unwrap(dotenv) ELSE EmptyEnv
JobSource == [k \in {ENV_JOB_NAME, ENV_JOB_ID} |-> FlowId]

\* the variables synthesized for the step at position i
SynthSource(i) ==
    LET before == LastMain(SubSeq(results, 1, i - 1))
        task == [k \in {ENV_TASK_NAME, ENV_TASK_ID, ENV_OUTPUT_FILE} |->
                    CASE k = ENV_TASK_NAME -> NameOf(i)
                      [] k = ENV_TASK_ID -> CommandIdOf(i)
                      [] k = ENV_OUTPUT_FILE -> OutputFileOf(i)]
        prev == [k \in {ENV_PREV_CODE, ENV_PREV_ID, ENV_PREV_NAME} |->
                    CASE k = ENV_PREV_CODE -> ToString(Unwrap(before).exit_code)
                      [] k = ENV_PREV_ID -> Unwrap(before).command_id
                      [] k = ENV_PREV_NAME -> NameOf(FlowIndex(Unwrap(before).command_id))]
    IN  IF IsSome(before) THEN EnvExtend(task, prev) ELSE task

\* the pairs the first m launched steps emitted through their output files
FileSources(m) ==
    [n \in 1..m |-> IF IsSome(launches[n].merged) THEN Unwrap(launches[n].merged)
                    ELSE EmptyEnv]

\* C9 (as claimed): in the environment a step is launched with, the latest source
\* of the chain process environment, dotenv file, flow-level environment, step
\* overrides, synthesized variables, output-file pairs wins: a synthesized
\* variable wins over a step-level override of the same key.
C9_ClaimedPrecedence ==
    \A m \in 1..Len(launches) :
        LET i == FlowIndex(launches[m].id)
        IN  AgreesWithChain(launches[m].env,
                <<ProcessSource, DotenvSource, flow_env, flow[i].env,
                  EnvExtend(JobSource, SynthSource(i))>> \o FileSources(m - 1))

\* C9 (amended): the latest source wins of the chain process environment, dotenv
\* file, flow-level environment, NAUMAN_JOB_*, pairs emitted through the output
\* files of earlier steps, the NAUMAN_TASK_*, NAUMAN_PREV_* and
\* NAUMAN_OUTPUT_FILE variables synthesized for the step, the step's own
\* overrides: a step-level override wins over a synthesized variable.
C9_Precedence ==
    \A m \in 1..Len(launches) :
        LET i == FlowIndex(launches[m].id)
        IN  AgreesWithChain(launches[m].env,
                <<ProcessSource, DotenvSource, flow_env, JobSource>>
                \o FileSources(m - 1)
                \o <<SynthSource(i), flow[i].env>>)

\* C9 witness: the second launched step overrides NAUMAN_TASK_ID, which every
\* other source defines too, and is launched with its own value
C9_Witness ==
    /\ system_env /\ IsSome(dotenv) /\ flow_env # EmptyEnv
    /\ Len(launches) = 2
    /\ IsSome(launches[1].merged)
    /\ launches[2].spawned
    /\ flow[FlowIndex(launches[2].id)].env # EmptyEnv
    /\ launches[2].env[ENV_TASK_ID] = "s" \o ToString(FlowIndex(launches[2].id))
    /\ launches[2].env[ENV_TASK_ID] # launches[2].id

\* the keys the executor sets for the step of the launch at position m
SynthKeys(m) == DOMAIN SynthSource(FlowIndex(launches[m].id))

\* a step that does not write to its output file changes no key: the next
\* executed step is given, but for its synthesized variables, the same context
NoWriteNoChange ==
    \A m \in 1..(Len(launches) - 1) :
        ~IsSome(launches[m].merged) =>
            \A k \in (DOMAIN launches[m].ctx \cup DOMAIN launches[m + 1].ctx)
                      \ SynthKeys(m + 1) :
                /\ k \in DOMAIN launches[m].ctx
                /\ k \in DOMAIN launches[m + 1].ctx
                /\ launches[m + 1].ctx[k] = launches[m].ctx[k]

\* C10 (as claimed): when an executed step writes KEY=VALUE to its output file,
\* the accumulated environment the next executed step sees contains KEY=VALUE;
\* a step that never writes to the file changes no key through the merge.
C10_ClaimedRoundTrip ==
    /\ \A m \in 1..(Len(launches) - 1) :
          IsSome(launches[m].merged) =>
              \A k \in DOMAIN Unwrap(launches[m].merged) :
                  /\ k \in DOMAIN launches[m + 1].ctx
                  /\ launches[m + 1].ctx[k] = Unwrap(launches[m].merged)[k]
    /\ NoWriteNoChange

\* C10 (amended): the same for every KEY that is not one of the variables the
\* executor synthesizes for the next executed step (NAUMAN_TASK_NAME,
\* NAUMAN_TASK_ID, NAUMAN_OUTPUT_FILE, and NAUMAN_PREV_* when a previous result
\* exists); the value written overrides the process, flow-level and
\* writing-step-level values of KEY.
C10_RoundTrip ==
    /\ \A m \in 1..(Len(launches) - 1) :
          IsSome(launches[m].merged) =>
              \A k \in DOMAIN Unwrap(launches[m].merged) \ SynthKeys(m + 1) :
                  /\ k \in DOMAIN launches[m + 1].ctx
                  /\ launches[m + 1].ctx[k] = Unwrap(launches[m].merged)[k]
    /\ NoWriteNoChange

\* C10 witness: process X, flow X and step X are set, the step wrote X to its
\* output file, and the next executed step sees the value of the file
C10_Witness ==
    /\ system_env /\ flow_env # EmptyEnv
    /\ Len(launches) = 2
    /\ launches[1].env["X"] = "s" \o ToString(FlowIndex(launches[1].id))
    /\ IsSome(launches[1].merged)
    /\ launches[2].ctx["X"] = Unwrap(launches[1].merged)["X"]
    /\ launches[2].ctx["X"] \notin {"p", "w", launches[1].env["X"]}

(***************************************************************************)
(* Properties of fatal errors.                                             *)
(***************************************************************************)

\* the events, launches of the step with identifier id
EventsOf(id) == SelectSeq(events, LAMBDA e : e.id = id)
LaunchesOf(id) == SelectSeq(launches, LAMBDA l : l.id = id)

\* the step that was being executed when the error was raised
FailedStep == Len(results) + 1

\* C11: a fatal condition raised while executing step k (a logging failure,
\* a spawn failure, a capture or sink failure, a failure of the wait, a
\* failure to parse the output file) halts the run: Executor::execute has
\* returned the error and takes no further step, no result is recorded for
\* step k or a later one, no step after k was announced to the logger or
\* launched, and step k was tried exactly once.
C11_FatalHalts ==
    error \in StepFaults =>
        /\ pc = "error"
        /\ ~ENABLED ExecutorSteps(RunChildren)
        /\ FailedStep <= Len(flow)
        /\ current = CommandIdOf(FailedStep)
        /\ \A i \in 1..Len(flow) :
              /\ i > FailedStep => EventsOf(CommandIdOf(i)) = <<>>
                                   /\ LaunchesOf(CommandIdOf(i)) = <<>>
              /\ i >= FailedStep => CommandIdOf(i) \notin DOMAIN registry
              /\ Len(LaunchesOf(CommandIdOf(i))) <= 1
              /\ Len(SelectSeq(EventsOf(CommandIdOf(i)),
                               LAMBDA e : e.type = "switch")) <= 1

\* C11 witness: a sink refused the second chunk of the output of the child of
\* the first of two steps: the first chunk was written, capture_command
\* returned the error and the run has stopped with the second step never
\* looked at
C11_Witness ==
    /\ error = "capture"
    /\ cap_result = "WriteError"
    /\ Len(written) = 1
    /\ pc = "error"
    /\ Len(flow) = 2
    /\ results = <<>>
    /\ Len(launches) = 1 /\ launches[1].spawned

\* the run-summary events handed to the logger
SummaryEvents == SelectSeq(events, LAMBDA e : e.type = "summary")

\* C12: when a fatal condition stops the run at step k, the run has still
\* emitted a run-summary event that carries the results of the steps executed
\* before the failure.
C12_SummaryAfterFatal ==
    (pc = "error" /\ error \in StepFaults) =>
        /\ SummaryEvents # <<>>
        /\ SummaryEvents[Len(SummaryEvents)].data = results

(***************************************************************************)
(* Properties of the order of the steps.                                   *)
(***************************************************************************)

\* the position in the event list of the first event of the given type for
\* the step i, 0 when there is none
EventPos(type, i) ==
    LET ps == {p \in 1..Len(events) :
                  events[p].type = type /\ events[p].id = CommandIdOf(i)}
    IN IF ps = {} THEN 0 ELSE CHOOSE p \in ps : \A q \in ps : p <= q

\* C13: the steps are processed one at a time in the order of the flow: the
\* i-th result is the result of the i-th step and has been fed back to the
\* registry, the state and the previous result are those after the last
\* result, every event of step i precedes the context switch of step i + 1,
\* a step is launched only when every step before it has its result, and a
\* child and its capture exist only for the step that is being executed; a
\* run without fatal error ends with a summary that holds exactly one result
\* per step, in the order of the definition.
C13_OneAtATimeInOrder ==
    /\ \A i \in 1..Len(results) :
          /\ results[i].command_id = CommandIdOf(i)
          /\ CommandIdOf(i) \in DOMAIN registry
          /\ registry[CommandIdOf(i)] = results[i]
          /\ EventPos("switch", i) > 0
          /\ EventPos("end", i) > EventPos("switch", i)
    /\ \A i \in 1..(Len(flow) - 1) :
          EventPos("switch", i + 1) > 0 =>
              /\ i <= Len(results)
              /\ \A p \in 1..Len(events) :
                    events[p].id = CommandIdOf(i) => p < EventPos("switch", i + 1)
    /\ \A m \in 1..(Len(launches) - 1) :
          /\ FlowIndex(launches[m].id) < FlowIndex(launches[m + 1].id)
          /\ FlowIndex(launches[m].id) <= Len(results)
    /\ state = (IF \E i \in MainSteps(results) : RanAndFailed(i)
                THEN Failed ELSE Running)
    /\ previous = LastMain(results)
    /\ DOMAIN child # {} =>
          /\ pc \in {"capture", "error"}
          /\ current = CommandIdOf(Len(results) + 1)
          /\ launches[Len(launches)].id = current
    /\ pc = "done" =>
          /\ Len(results) = Len(flow)
          /\ events[Len(events)] = Event("summary", None, results)
          /\ Len(SummaryEvents) = 1

\* C13 witness: a run of three steps has ended without fatal error and its
\* summary lists the three results in the order of the flow
C13_Witness ==
    /\ pc = "done"
    /\ Len(flow) = 3
    /\ [i \in 1..3 |-> events[Len(events)].data[i].command_id]
          = <<CommandIdOf(1), CommandIdOf(2), CommandIdOf(3)>>
    /\ EventPos("end", 2) < EventPos("switch", 3)

(***************************************************************************)
(* Properties of the workers of the capture.                               *)
(***************************************************************************)

\* the worker of stream s has left capture_stream (returned or panicked)
Terminated(s) == wpc[s] \in {"done", "failed", "panicked"}

\* C14: the two reader workers never outlive the capture: whenever
\* capture_command has returned, with Ok or with an error (a failed sink write
\* in the consumer loop included), both workers have terminated and both
\* have been joined.
C14_WorkersJoinedOnReturn ==
    cpc = "returned" =>
        /\ \A s \in Streams : Terminated(s)
        /\ joined = Streams

\* the send of the worker of stream s waits for room in the channel
Blocked(s) == wpc[s] = "send" /\ receiver /\ ~CanSend(chan)

\* the consumer loop of capture_command has ended without a write error
LoopEnded == cpc \in {"join_stdout", "join_stderr"}
             \/ (cpc = "returned" /\ cap_result # "WriteError")

\* C15 (safety part): a worker blocked on a full channel always has a consumer
\* that is still in its loop, a state of the living process in which no thread
\* can take a step is one where capture_command has returned and both workers
\* have terminated, and
\* the consumer loop ends only when both senders are dropped and the channel
\* is drained.
CaptureNeverStuck ==
    /\ \A s \in Streams : Blocked(s) => cpc \in {"recv", "write"}
    /\ (cpc # "idle" /\ Alive /\ ~ENABLED NextCapture) =>
           cpc = "returned" /\ \A s \in Streams : Terminated(s)
    /\ LoopEnded => chan = <<>> /\ \A s \in Streams : ~SenderOpen(s)

\* capture_command has returned and, unless the process was aborted after
\* that, both workers have terminated, which drops their senders
CaptureOver ==
    /\ cpc = "returned"
    /\ \A s \in Streams : ~Alive \/ (Terminated(s) /\ ~SenderOpen(s))

\* C15: the capture is deadlock-free and terminates: the streams of the child
\* being finite and every sink write returning, under fair scheduling each
\* worker eventually drops its sender, the consumer loop ends once both
\* senders are dropped and the channel is drained, and capture_command
\* eventually returns; no worker is ever blocked on a full channel that the
\* consumer no longer receives from.
C15_CaptureTerminates ==
    /\ []CaptureNeverStuck
    /\ <>[]CaptureOver

\* C15 witness: the worker of one stream waits to send on the full channel
\* after the other worker has terminated, the consumer still receiving
C15_Witness ==
    \E s \in Streams :
        /\ Blocked(s)
        /\ Len(chan) = ChannelCapacity
        /\ \A t \in Streams \ {s} : Terminated(t)
        /\ cpc \in {"recv", "write"}

\* C16: bounded backpressure: the channel never holds more than 4 undelivered
\* messages, each of at least 1 and at most 1024 bytes, and a worker whose send
\* found the channel full performs no read (and completes no send) until the
\* consumer has received a message.
C16_BoundedBackpressure ==
    /\ [](/\ Len(chan) <= ChannelCapacity
          /\ \A p \in 1..Len(chan) :
                /\ chan[p].size >= 1 /\ chan[p].size <= BUFFER_SIZE
                /\ Len(ChunkOf(chan[p])) = chan[p].size)
    /\ [][\A s \in Streams :
            Blocked(s) /\ chan' = chan =>
                wpc'[s] = "send" /\ unread'[s] = unread[s]]_vars

\* C16 witness: four messages wait in the channel and both workers have read
\* one more chunk each that they cannot send yet
C16_Witness ==
    /\ Len(chan) = ChannelCapacity
    /\ \A s \in Streams : Blocked(s)

\* the results of capture_command that report a read error of a worker
ReadErrors == {"ReadError" \o s : s \in Streams}

\* C17: a read error on a stream ends the worker of that stream with the error
\* and drops its sender; the chunks both workers sent before are still
\* delivered; capture_command returns the error only after both workers have
\* been joined, and when both workers failed it returns the error of the
\* worker joined first.
C17_ReadErrorAfterJoins ==
    cap_result \in ReadErrors =>
        /\ cpc = "returned"
        /\ \E s \in Streams : wpc[s] = "failed" /\ cap_result = "ReadError" \o s
        /\ chan = <<>>
        /\ \A s \in Streams : DeliveredOf(written, s) \o unread[s] = child[s]
        /\ (\A s \in Streams : wpc[s] = "failed") => cap_result = "ReadError" \o Stdout
        /\ joined = Streams

(***************************************************************************)
(* Properties of the events of a step.                                     *)
(***************************************************************************)

\* the types of the events of step i, in the order the logger received them
EventTypesOf(i) ==
    LET es == EventsOf(CommandIdOf(i))
    IN  [p \in 1..Len(es) |-> es[p].type]

\* the first event of step i is the context switch and carries the decision of
\* the policy; the last one is the end of the command and carries the result
SwitchAndEndOf(i) ==
    LET es == EventsOf(CommandIdOf(i))
    IN  /\ es[1] = Event("switch", CommandIdOf(i), ~results[i].aborted)
        /\ es[Len(es)] = Event("end", CommandIdOf(i), results[i])

\* C18 (as claimed): the logger receives the context switch first; for an
\* executed step the start of the step, the announcement of the handler and
\* the end of the step with its result follow; for a step skipped by policy
\* neither a start nor an end event is emitted.
C18_ClaimedProtocol ==
    \A i \in 1..Len(results) :
        /\ EventTypesOf(i)[1] = "switch"
        /\ EventsOf(CommandIdOf(i))[1].data = ~results[i].aborted
        /\ EventTypesOf(i) = IF results[i].aborted THEN <<"switch">>
                             ELSE <<"switch", "start", "shell", "end">>

\* C18 (amended): the same for an executed step; for a step skipped by policy
\* no start event is emitted, but the end event is: it carries the synthesized
\* aborted result and precedes the feeding of that result to the flow.
C18_EventProtocol ==
    \A i \in 1..Len(results) :
        /\ SwitchAndEndOf(i)
        /\ EventTypesOf(i) = IF results[i].aborted THEN <<"switch", "end">>
                             ELSE <<"switch", "start", "shell", "end">>

\* C18 witness: the first step was executed and failed, the second was skipped
\* by policy, and the logger received the end event of the skipped step
C18_Witness ==
    /\ Len(results) = 2
    /\ RanAndFailed(1)
    /\ results[2].aborted
    /\ EventTypesOf(1) = <<"switch", "start", "shell", "end">>
    /\ EventTypesOf(2) = <<"switch", "end">>
    /\ EventsOf(CommandIdOf(2))[2].data = AbortedResult(CommandIdOf(2))

(***************************************************************************)
(* Properties of the dry run.                                              *)
(***************************************************************************)

\* C19: in a dry run no child process is launched and no capture thread is
\* started for any step, every step returns exit code 0 with aborted = false,
\* the state is Running after every step and no step is skipped by policy,
\* whatever the flow.
C19_DryRunAllSucceed ==
    dry_run =>
        /\ \A m \in 1..Len(launches) : ~launches[m].spawned
        /\ DOMAIN child = {} /\ DOMAIN wpc = {} /\ DOMAIN fds = {}
        /\ cpc = "idle" /\ pc # "capture" /\ ub = None
        /\ \A i \in 1..Len(results) : results[i] = ShellResult(CommandIdOf(i), 0)
        /\ state = Running
        /\ will_execute
        /\ error \notin {"spawn", "capture", "wait"}
        /\ \A i \in 1..Len(flow) :
              EventPos("switch", i) > 0 =>
                  events[EventPos("switch", i)].data = TRUE

\* C19 witness: a dry run of three steps with the policy PriorSuccess, hooks
\* among them, has ended with three results
C19_Witness ==
    /\ dry_run
    /\ pc = "done"
    /\ Len(results) = 3
    /\ \A i \in 1..3 : flow[i].policy = PriorSuccess
    /\ \E i \in 1..3 : flow[i].is_hook
    /\ Len(launches) = 3

(***************************************************************************)
(* A skipped main step and the steps after it.                             *)
(***************************************************************************)

\* the flow starts with three main steps A, B, C, B and C with the policy
\* PriorSuccess; A was executed and exited non-zero, and C has its result
SkipThenPriorSuccess ==
    /\ Len(results) >= 3
    /\ \A i \in 1..3 : ~flow[i].is_hook
    /\ flow[2].policy = PriorSuccess /\ flow[3].policy = PriorSuccess
    /\ RanAndFailed(1)

\* C20: a skipped main step hides the earlier failure from PriorSuccess: B is
\* skipped with a synthesized exit code 0, C is executed although the state is
\* Failed, and the NAUMAN_PREV_ID and NAUMAN_PREV_CODE C is launched with name
\* B and the code 0, not A and its exit code.
C20_SkipHidesFailure ==
    SkipThenPriorSuccess =>
        /\ results[2] = AbortedResult(CommandIdOf(2))
        /\ ~results[3].aborted
        /\ state = Failed
        /\ LaunchesOf(CommandIdOf(2)) = <<>>
        /\ Len(LaunchesOf(CommandIdOf(3))) = 1
        /\ LaunchesOf(CommandIdOf(3))[1].ctx[ENV_PREV_ID] = CommandIdOf(2)
        /\ LaunchesOf(CommandIdOf(3))[1].ctx[ENV_PREV_CODE] = ExitCodeString(0)
        /\ LaunchesOf(CommandIdOf(3))[1].env[ENV_PREV_ID] = CommandIdOf(2)
        /\ LaunchesOf(CommandIdOf(3))[1].env[ENV_PREV_CODE] = ExitCodeString(0)

\* C20 witness: A exited with 1, B was skipped, and the child of C was spawned
\* with the identifier of B as NAUMAN_PREV_ID
C20_Witness ==
    /\ SkipThenPriorSuccess
    /\ results[1].exit_code = 1
    /\ results[2].aborted
    /\ LaunchesOf(CommandIdOf(3))[1].spawned
    /\ LaunchesOf(CommandIdOf(3))[1].env[ENV_PREV_ID] = CommandIdOf(2)

====
